---------------------------- MODULE Spec2Model ----------------------------
(***************************************************************************)
(* EnvironmentalLoggerAnalyser.py: the repair of an environmental-logger   *)
(* file into a JSON array (formattingTheJSONFileAndReturnWavelengthAnd-    *)
(* Spectrum), its parse (JSONHandler) and the netCDF export (main).        *)
(*                                                                         *)
(* Text.  A Python string is a sequence of tokens.  A token is a run of    *)
(* characters that the program never splits: a single character of         *)
(* punctuation, a digit, a blank, a carriage return, or a whole word such  *)
(* as wavelength.  `x in line' for one of the program's literals is the    *)
(* occurrence of that token in the line.  The slice of the numeric         *)
(* extraction counts tokens; in every line of the model the tokens after   *)
(* the first colon are single characters, so the count is the count of     *)
(* characters.                                                             *)
(*                                                                         *)
(* Numbers are naturals: every value of the model is exact in 'f4'.        *)
(***************************************************************************)
EXTENDS Integers, Sequences, FiniteSets, TLC

VARIABLES
    pc,              \* position of the program
    err,             \* the exception that ended the run, or "none"
    log,             \* the reading records the input file was written from
    input,           \* the input file as first read (never changed)
    file,            \* the file on disk, as a sequence of lines
    tempList,        \* line 74: fileHandler.read().split('\n')
    i,               \* line 76: loop index (0-based, as in the source)
    linePosition,    \* line 74
    wavelengthList,  \* line 74
    spectrumList,    \* line 74
    j,               \* line 74
    k,               \* line 74
    lookedAt,        \* 0-based position of the line that the test of line 82
                     \* read as tempList[i - 4] in the latest iteration
    JSONArray,       \* line 171: the parsed records
    wavelength,      \* line 171 (None is the empty list: line 208 tests truth)
    spectrum,        \* line 171
    netCDFHandler,   \* line 175: the output container
    dataMemberList,  \* line 176
    todo             \* line 186: the fields of the template not yet visited

fmtVars == <<tempList, i, linePosition, wavelengthList, spectrumList, j, k, lookedAt>>
mainVars == <<JSONArray, wavelength, spectrum, netCDFHandler, dataMemberList, todo>>

vars == <<pc, err, log, input, file, tempList, i, linePosition,
          wavelengthList, spectrumList, j, k, lookedAt,
          JSONArray, wavelength, spectrum, netCDFHandler, dataMemberList, todo>>

-----------------------------------------------------------------------------
(* Bounds of the model *)

MaxRecords == 2
MaxBands == 2
MaxLines == 5

-----------------------------------------------------------------------------
(* Python primitives *)

NoRead == 0 - 1
ValueError == 0 - 1

\* x in s, for a token x
Contains(s, x) == \E p \in 1..Len(s) : s[p] = x

\* s.find(x): the 0-based position of the first x, -1 when there is none
Find(s, x) ==
    IF Contains(s, x)
    THEN (CHOOSE p \in 1..Len(s) : s[p] = x /\ \A q \in 1..(p - 1) : s[q] # x) - 1
    ELSE 0 - 1

\* s[idx] is defined for -len(s) <= idx < len(s)
PyIndexOK(s, idx) == idx >= 0 - Len(s) /\ idx < Len(s)

\* the 0-based position that s[idx] reads: a negative idx counts from the end
PyPos(s, idx) == IF idx < 0 THEN Len(s) + idx ELSE idx

PyGet(s, idx) == s[PyPos(s, idx) + 1]

\* s[a : -3], a >= 0
SliceToMinus3(s, a) == SubSeq(s, a + 1, Len(s) - 3)

\* s[a : -2], a >= 0
SliceToMinus2(s, a) == SubSeq(s, a + 1, Len(s) - 2)

DigitTok == <<"0", "1", "2", "3", "4", "5", "6", "7", "8", "9">>
IsDigit(x) == \E d \in 1..10 : DigitTok[d] = x
DigitVal(x) == (CHOOSE d \in 1..10 : DigitTok[d] = x) - 1
IsSpace(x) == x \in {" ", "\r", "\t", "\n"}

RECURSIVE DigitsValue(_)
DigitsValue(s) ==
    IF s = <<>> THEN 0
    ELSE 10 * DigitsValue(SubSeq(s, 1, Len(s) - 1)) + DigitVal(s[Len(s)])

RECURSIVE Strip(_)
Strip(s) ==
    IF s = <<>> THEN s
    ELSE IF IsSpace(s[1]) THEN Strip(Tail(s))
    ELSE IF IsSpace(s[Len(s)]) THEN Strip(SubSeq(s, 1, Len(s) - 1))
    ELSE s

\* float(s) and int(s) on the decimal numerals of the model: blanks around the
\* numeral are ignored; anything else raises ValueError
ParseNumber(s) ==
    LET t == Strip(s)
    IN  IF t # <<>> /\ \A p \in 1..Len(t) : IsDigit(t[p])
        THEN DigitsValue(t)
        ELSE ValueError

RECURSIVE ToDigits(_)
ToDigits(n) ==
    IF n < 10 THEN <<DigitTok[n + 1]>>
    ELSE Append(ToDigits(n \div 10), DigitTok[(n % 10) + 1])

Max(a, b) == IF a > b THEN a ELSE b

RECURSIVE Flatten(_)
Flatten(ss) == IF ss = <<>> THEN <<>> ELSE Head(ss) \o Flatten(Tail(ss))

-----------------------------------------------------------------------------
(* The text of a log file *)

MARKER == "environment_sensor_set_reading"
QUOTE == "\""

Str(s) == <<QUOTE>> \o s \o <<QUOTE>>
Key(s) == Str(s) \o <<":", " ">>

OpenLine == <<"{", "\r">>
CloseLine == <<"}", "\r">>
CloseCommaLine == <<"}", ",", "\r">>
BoundaryLine == <<"}", "{", "\r">>
MarkerLine == Key(<<MARKER>>) \o <<"{", "\r">>
BandLine == Key(<<"band">>) \o <<"{", "\r">>
WavelengthLine(n) == Key(<<"wavelength">>) \o ToDigits(n) \o <<",", "\r">>
SpectrumLine(n) == Key(<<"spectrum">>) \o ToDigits(n) \o <<" ", "\r">>
StitchLine == <<"}", ",", "{">>

\* a line of the model: a sequence of tokens
LineVocabulary ==
    { CloseLine, CloseCommaLine, MarkerLine, BandLine, WavelengthLine(5),
      SpectrumLine(7), <<"[">>, <<"]">> }

NoLog == [recs |-> <<>>, newline |-> FALSE]

-----------------------------------------------------------------------------
(* formattingTheJSONFileAndReturnWavelengthAndSpectrum *)

\* line 81 and line 90: tempList[i][tempList[i].find(':') + 1 : -2]
ValueText(line) == SliceToMinus2(line, Find(line, ":") + 1)

NoDataset == [state |-> "none", time |-> 0, dims |-> <<>>, vars |-> <<>>, history |-> <<>>]

\* main has not been called
NoMain ==
    /\ JSONArray = <<>>
    /\ wavelength = <<>>
    /\ spectrum = <<>>
    /\ netCDFHandler = NoDataset
    /\ dataMemberList = <<>>
    /\ todo = {}

\* lines 74-75, after the read
StartFormat(lines) ==
    /\ pc = "scan"
    /\ err = "none"
    /\ input = lines
    /\ file = lines
    /\ tempList = lines
    /\ i = 0
    /\ linePosition = <<>>
    /\ wavelengthList = <<<<>>>>
    /\ spectrumList = <<<<>>>>
    /\ j = 0
    /\ k = 0
    /\ lookedAt = NoRead

Raise(e) ==
    /\ pc' = "error"
    /\ err' = e

\* the marker, on any line
IsBoundaryAnywhere(line, idx) == Contains(line, MARKER)

\* line 77: the line before this one is a record boundary
IsBoundary(line, idx) == Contains(line, MARKER) /\ idx > 2

LOOKBACK == 4

\* line 82: the left operand of the first `and' decides whether
\* tempList[i - 4] is read
ReadsBack(lines, idx) == ~Contains(lines[idx + 1], "wavelength")

\* the test with a lookback of five lines
EndOfWavelengthArrayFive(lines, idx) ==
    /\ ReadsBack(lines, idx)
    /\ PyIndexOK(lines, idx - 5)
    /\ Contains(PyGet(lines, idx - 5), "wavelength")
    /\ ~Contains(lines[idx + 1], "band")
    /\ ~Contains(lines[idx + 1], ",")

\* lines 82-83, when tempList[i - 4] can be read
EndOfWavelengthArray(lines, idx) ==
    /\ ReadsBack(lines, idx)
    /\ PyIndexOK(lines, idx - LOOKBACK)
    /\ Contains(PyGet(lines, idx - LOOKBACK), "wavelength")
    /\ ~Contains(lines[idx + 1], "band")
    /\ ~Contains(lines[idx + 1], ",")

\* lines 76-90: one iteration of the scan
ScanStep ==
    /\ pc = "scan"
    /\ i < Len(tempList)
    /\ LET line == tempList[i + 1]
           isW == Contains(line, "wavelength")
           isS == Contains(line, "spectrum")
           num == ParseNumber(ValueText(line))
           looks == ReadsBack(tempList, i)
           advance == EndOfWavelengthArray(tempList, i)
           wl1 == IF isW
                  THEN [wavelengthList EXCEPT ![j + 1] = Append(@, num)]
                  ELSE wavelengthList
           wl2 == IF advance THEN Append(wl1, <<>>) ELSE wl1
           sp1 == IF advance THEN Append(spectrumList, <<>>) ELSE spectrumList
           k1 == IF advance THEN k + 1 ELSE k
           sp2 == IF isS THEN [sp1 EXCEPT ![k1 + 1] = Append(@, num)] ELSE sp1
       IN  IF isW /\ num = ValueError
           THEN /\ Raise("ValueError")
                /\ UNCHANGED <<log, input, file, fmtVars, mainVars>>
           ELSE IF looks /\ ~PyIndexOK(tempList, i - LOOKBACK)
           THEN /\ Raise("IndexError")
                /\ UNCHANGED <<log, input, file, fmtVars, mainVars>>
           ELSE IF isS /\ num = ValueError
           THEN /\ Raise("ValueError")
                /\ UNCHANGED <<log, input, file, fmtVars, mainVars>>
           ELSE /\ linePosition' =
                       IF IsBoundary(line, i)
                       THEN Append(linePosition, i - 1)
                       ELSE linePosition
                /\ wavelengthList' = wl2
                /\ spectrumList' = sp2
                /\ j' = IF advance THEN j + 1 ELSE j
                /\ k' = k1
                /\ lookedAt' = IF looks THEN PyPos(tempList, i - LOOKBACK) ELSE NoRead
                /\ i' = i + 1
                /\ pc' = IF i + 1 = Len(tempList) THEN "drop" ELSE "scan"
                /\ UNCHANGED <<err, log, input, file, tempList, mainVars>>

\* the slot of index 0 is removed
RemoveFirst(l) == Tail(l)

\* list.remove([]): the first slot equal to [] is removed
HasEmpty(l) == \E p \in 1..Len(l) : l[p] = <<>>
FirstEmpty(l) == CHOOSE p \in 1..Len(l) : l[p] = <<>> /\ \A q \in 1..(p - 1) : l[q] # <<>>
RemoveAt(l, p) == SubSeq(l, 1, p - 1) \o SubSeq(l, p + 1, Len(l))
RemoveEmpty(l) == RemoveAt(l, FirstEmpty(l))

\* lines 92-93
DropStep ==
    /\ pc = "drop"
    /\ IF HasEmpty(wavelengthList) /\ HasEmpty(spectrumList)
       THEN /\ wavelengthList' = RemoveEmpty(wavelengthList)
            /\ spectrumList' = RemoveEmpty(spectrumList)
            /\ pc' = "stitch"
            /\ UNCHANGED err
       ELSE /\ Raise("ValueError")
            /\ UNCHANGED <<wavelengthList, spectrumList>>
    /\ UNCHANGED <<log, input, file, tempList, i, linePosition, j, k, lookedAt,
                   mainVars>>

\* lines 95-97: del tempList[line]; tempList.insert(line, "},{")
RECURSIVE Stitched(_, _)
Stitched(lines, positions) ==
    IF positions = <<>> THEN lines
    ELSE Stitched([lines EXCEPT ![Head(positions) + 1] = StitchLine], Tail(positions))

StitchStep ==
    /\ pc = "stitch"
    /\ tempList' = Stitched(tempList, linePosition)
    /\ pc' = "write"
    /\ UNCHANGED <<err, log, input, file, i, linePosition, wavelengthList,
                   spectrumList, j, k, lookedAt, mainVars>>

\* brackets whenever one of the two is missing
NeedsEitherBracket(lines) ==
    ~Contains(PyGet(lines, 0), "[") \/ ~Contains(PyGet(lines, 0 - 1), "]")

\* line 102
NeedsBrackets(lines) ==
    ~Contains(PyGet(lines, 0), "[") /\ ~Contains(PyGet(lines, 0 - 1), "]")

\* lines 102-107: the text handed to fileHandler.write, line by line
Wrapped(lines) ==
    IF NeedsBrackets(lines) THEN <<<<"[">>>> \o lines \o <<<<"]">>>> ELSE lines

\* lines 99-108
WriteStep ==
    /\ pc = "write"
    /\ tempList' = Wrapped(tempList)
    /\ file' = Wrapped(tempList)
    /\ pc' = "formatted"
    /\ UNCHANGED <<err, log, input, i, linePosition, wavelengthList,
                   spectrumList, j, k, lookedAt, mainVars>>

-----------------------------------------------------------------------------
(* A log: reading records of one schema, written as the logger writes them *)

TIMESTAMP == <<"timestamp">>
SPECTROMETER == <<"spectrometer">>
MAXFIXED == <<"maxFixedIntensity">>
INTEGRATION == <<"integration", " ", "time", " ", "in", " ", "?s">>
VALUE == <<"value">>
UNIT == <<"unit">>
RAWVALUE == <<"rawValue">>

\* the scalar fields of a schema: name, unit (if any), rawValue (if any)
Field(name, hasUnit, unit, hasRaw) ==
    [name |-> name, hasUnit |-> hasUnit, unit |-> unit, hasRaw |-> hasRaw]

SensorPar == Field(<<"sensor", " ", "par">>, TRUE, <<"?mol/(m^2*s)">>, TRUE)
Temperature == Field(<<"temperature">>, TRUE, <<"DegCelsius">>, FALSE)
TemperatureK == Field(<<"temperature">>, TRUE, <<"Kelvin">>, FALSE)
Brightness == Field(<<"brightness">>, FALSE, <<>>, FALSE)

Schemas == { <<>>, <<SensorPar>>, <<Temperature>>, <<SensorPar, TemperatureK>>,
             <<Brightness, Temperature>> }

\* what record number r carries
TimestampOf(r) == <<"T">> \o ToDigits(r)
ValueOf(r) == 20 + r
RawValueOf(r) == 100 + r
MaxFixedOf(r) == 160 + r
IntegrationOf(r) == 50 + r

\* the wavelength axis of L bands, and the spectra a record may carry
WAxis(L) == [b \in 1..L |-> 400 + 100 * b]
Spectra(L) == { [b \in 1..L |-> base + b] : base \in {10, 30} }

\* an abstract reading record: its number, its scalar fields, its two arrays
Reading(r, schema, W, S) == [r |-> r, schema |-> schema, W |-> W, S |-> S]

FieldLines(f, r, last) ==
    <<Key(f.name) \o <<"{", "\r">>,
      Key(VALUE) \o Str(ToDigits(ValueOf(r)))
          \o (IF f.hasUnit \/ f.hasRaw THEN <<",">> ELSE <<>>) \o <<"\r">>>>
    \o (IF f.hasUnit
        THEN <<Key(UNIT) \o Str(f.unit) \o (IF f.hasRaw THEN <<",">> ELSE <<>>) \o <<"\r">>>>
        ELSE <<>>)
    \o (IF f.hasRaw
        THEN <<Key(RAWVALUE) \o Str(ToDigits(RawValueOf(r))) \o <<"\r">>>>
        ELSE <<>>)
    \o <<IF last THEN CloseLine ELSE CloseCommaLine>>

BandLines(w, s, last) ==
    <<BandLine, WavelengthLine(w), SpectrumLine(s),
      IF last THEN CloseLine ELSE CloseCommaLine>>

\* the lines of one record, between the line that opens it and the line that
\* closes it
RecordLines(rec) ==
    <<MarkerLine, Key(TIMESTAMP) \o Str(TimestampOf(rec.r)) \o <<",", "\r">>>>
    \o Flatten([n \in 1..Len(rec.schema) |-> FieldLines(rec.schema[n], rec.r, FALSE)])
    \o <<Key(SPECTROMETER) \o <<"{", "\r">>,
         Key(MAXFIXED) \o Str(ToDigits(MaxFixedOf(rec.r))) \o <<",", "\r">>,
         Key(INTEGRATION) \o Str(ToDigits(IntegrationOf(rec.r))) \o <<",", "\r">>>>
    \o Flatten([b \in 1..Len(rec.W) |-> BandLines(rec.W[b], rec.S[b], b = Len(rec.W))])
    \o <<CloseLine, CloseLine>>

\* records follow each other as "}{"; the file may end with a newline
LogLines(l) ==
    <<OpenLine>> \o
    Flatten([n \in 1..Len(l.recs) |->
                RecordLines(l.recs[n])
                \o <<IF n = Len(l.recs) THEN CloseLine ELSE BoundaryLine>>])
    \o (IF l.newline THEN <<<<>>>> ELSE <<>>)

\* logs of N records of L bands over one schema and one wavelength axis
LogsOf(N, L) ==
    { [recs |-> [n \in 1..N |-> Reading(n, schema, WAxis(L), ss[n])], newline |-> nl] :
        schema \in Schemas, ss \in [1..N -> Spectra(L)], nl \in BOOLEAN }

-----------------------------------------------------------------------------
(* json.loads *)

JStr(s) == [t |-> "str", v |-> s]
JNum(n) == [t |-> "num", v |-> n]
JObj(f) == [t |-> "obj", v |-> f]
JArr(a) == [t |-> "arr", v |-> a]
IsStr(x) == x.t = "str"
IsObj(x) == x.t = "obj"

Failed == [ok |-> FALSE, next |-> 0, val |-> JNum(0)]
Parsed(val, next) == [ok |-> TRUE, next |-> next, val |-> val]

RECURSIVE SkipSpace(_, _)
SkipSpace(toks, p) ==
    IF p <= Len(toks) /\ IsSpace(toks[p]) THEN SkipSpace(toks, p + 1) ELSE p

RECURSIVE DigitsEnd(_, _)
DigitsEnd(toks, p) ==
    IF p <= Len(toks) /\ IsDigit(toks[p]) THEN DigitsEnd(toks, p + 1) ELSE p

RECURSIVE QuoteEnd(_, _)
QuoteEnd(toks, p) ==
    IF p > Len(toks) \/ toks[p] = QUOTE THEN p ELSE QuoteEnd(toks, p + 1)

\* a string that opens at position p
ParseString(toks, p) ==
    LET q == QuoteEnd(toks, p + 1)
    IN  IF p > Len(toks) \/ toks[p] # QUOTE \/ q > Len(toks) THEN Failed
        ELSE Parsed(JStr(SubSeq(toks, p + 1, q - 1)), q + 1)

RECURSIVE ParseValue(_, _)
RECURSIVE ParseMembers(_, _, _, _)
RECURSIVE ParseElements(_, _, _, _)

ParseValue(toks, p0) ==
    LET p == SkipSpace(toks, p0)
    IN  IF p > Len(toks) THEN Failed
        ELSE IF toks[p] = QUOTE THEN ParseString(toks, p)
        ELSE IF IsDigit(toks[p])
        THEN LET e == DigitsEnd(toks, p)
             IN  Parsed(JNum(DigitsValue(SubSeq(toks, p, e - 1))), e)
        ELSE IF toks[p] = "{" THEN ParseMembers(toks, p + 1, <<>>, TRUE)
        ELSE IF toks[p] = "[" THEN ParseElements(toks, p + 1, <<>>, TRUE)
        ELSE Failed

\* the members of an object, after its "{"; a repeated key keeps its last value
ParseMembers(toks, p0, acc, first) ==
    LET p == SkipSpace(toks, p0)
    IN  IF p > Len(toks) THEN Failed
        ELSE IF first /\ toks[p] = "}" THEN Parsed(JObj(acc), p + 1)
        ELSE LET key == ParseString(toks, p)
                 c == SkipSpace(toks, key.next)
             IN  IF ~key.ok \/ c > Len(toks) \/ toks[c] # ":" THEN Failed
                 ELSE LET val == ParseValue(toks, c + 1)
                          e == SkipSpace(toks, val.next)
                          acc1 == (key.val.v :> val.val) @@ acc
                      IN  IF ~val.ok \/ e > Len(toks) THEN Failed
                          ELSE IF toks[e] = "," THEN ParseMembers(toks, e + 1, acc1, FALSE)
                          ELSE IF toks[e] = "}" THEN Parsed(JObj(acc1), e + 1)
                          ELSE Failed

\* the elements of an array, after its "["
ParseElements(toks, p0, acc, first) ==
    LET p == SkipSpace(toks, p0)
    IN  IF p > Len(toks) THEN Failed
        ELSE IF first /\ toks[p] = "]" THEN Parsed(JArr(acc), p + 1)
        ELSE LET val == ParseValue(toks, p)
                 e == SkipSpace(toks, val.next)
             IN  IF ~val.ok \/ e > Len(toks) THEN Failed
                 ELSE IF toks[e] = "," THEN ParseElements(toks, e + 1, Append(acc, val.val), FALSE)
                 ELSE IF toks[e] = "]" THEN Parsed(JArr(Append(acc, val.val)), e + 1)
                 ELSE Failed

\* '\n'.join(lines)
RECURSIVE JoinLines(_)
JoinLines(lines) ==
    IF Len(lines) = 0 THEN <<>>
    ELSE IF Len(lines) = 1 THEN lines[1]
    ELSE lines[1] \o <<"\n">> \o JoinLines(Tail(lines))

\* json.loads(text): one value and nothing after it
Loads(toks) ==
    LET r == ParseValue(toks, 1)
    IN  IF r.ok /\ SkipSpace(toks, r.next) > Len(toks) THEN r ELSE Failed

-----------------------------------------------------------------------------
(* JSONHandler *)

\* lines 117-118, after the call of line 115 has returned
LoadStep ==
    /\ pc = "formatted"
    /\ LET r == Loads(JoinLines(file))
       IN  IF r.ok /\ r.val.t = "arr"
           THEN /\ JSONArray' = r.val.v
                /\ wavelength' = wavelengthList
                /\ spectrum' = spectrumList
                /\ pc' = "main"
                /\ UNCHANGED err
           ELSE /\ Raise("ValueError")
                /\ UNCHANGED <<JSONArray, wavelength, spectrum>>
    /\ UNCHANGED <<log, input, file, fmtVars, netCDFHandler, dataMemberList, todo>>

\* the record that json.loads returns for a reading
FieldValue(f, r) ==
    JObj((VALUE :> JStr(ToDigits(ValueOf(r))))
         @@ (IF f.hasUnit THEN UNIT :> JStr(f.unit) ELSE <<>>)
         @@ (IF f.hasRaw THEN RAWVALUE :> JStr(ToDigits(RawValueOf(r))) ELSE <<>>))

RECURSIVE FieldValues(_, _)
FieldValues(schema, r) ==
    IF schema = <<>> THEN <<>>
    ELSE (Head(schema).name :> FieldValue(Head(schema), r)) @@ FieldValues(Tail(schema), r)

RecordOf(rec) ==
    JObj(<<MARKER>> :>
        JObj((TIMESTAMP :> JStr(TimestampOf(rec.r)))
             @@ FieldValues(rec.schema, rec.r)
             @@ (SPECTROMETER :>
                    JObj((MAXFIXED :> JStr(ToDigits(MaxFixedOf(rec.r))))
                         @@ (INTEGRATION :> JStr(ToDigits(IntegrationOf(rec.r))))
                         @@ (<<"band">> :>
                                JObj((<<"wavelength">> :> JNum(rec.W[Len(rec.W)]))
                                     @@ (<<"spectrum">> :> JNum(rec.S[Len(rec.S)]))))))))

-----------------------------------------------------------------------------
(* The netCDF container: dimensions, variables and their attributes *)

TIME == <<"time">>
WAVELENGTH == <<"wavelength">>
SPECTRUM == <<"spectrum">>

Outcome(e, nc) == [err |-> e, nc |-> nc]

Exists(nc, name) == name \in DOMAIN nc.vars

\* createDimension
CreateDimension(nc, name, size) == [nc EXCEPT !.dims = (name :> size) @@ @]

\* createVariable: a variable without data
CreateVariable(nc, name, dtype, dims) ==
    [nc EXCEPT !.vars =
        (name :> [dtype |-> dtype, dims |-> dims, data |-> <<>>,
                  hasUnits |-> FALSE, units |-> <<>>]) @@ @]

\* variable[:] = data; the unlimited dimension grows to the data written
Assign(nc, name, data) ==
    [nc EXCEPT !.vars[name].data = data,
               !.dims[TIME] = IF Contains(nc.vars[name].dims, TIME)
                              THEN Max(@, Len(data)) ELSE @]

SetUnits(nc, name, u) ==
    [nc EXCEPT !.vars[name].hasUnits = TRUE, !.vars[name].units = u]

-----------------------------------------------------------------------------
(* Lines 61-65 and renameTheValue *)

UNIT_DICTIONARY ==
    (<<"m">> :> <<"meter">>)
    @@ (<<"hPa">> :> <<"hecto-Pascal">>)
    @@ (<<"DegCelsius">> :> <<"Celsius">>)
    @@ (<<"s">> :> <<"second">>)
    @@ (<<"m/s">> :> <<"meter", " ", "second-1">>)
    @@ (<<"mm/h">> :> <<"milimeters", " ", "hour-1">>)
    @@ (<<"relHumPerCent">> :> <<"percent">>)
    @@ (<<"?mol/(m^2*s)">> :> <<"micromole", " ", "meters-2", " ", "second-1">>)
    @@ (<<"kilo", " ", "Lux">> :> <<"kilo", " ", "Lux">>)
    @@ (<<"degrees">> :> <<"degrees">>)
    @@ (<<>> :> <<>>)

NAMES ==
    (<<"sensor", " ", "par">> :>
        <<"Sensor", " ", "Photosynthetical", " ", "Active", " ", "Radiation">>)

\* an unknown unit passes through
TranslateUnitOrKeep(u) ==
    [ok |-> TRUE, v |-> IF u \in DOMAIN UNIT_DICTIONARY THEN UNIT_DICTIONARY[u] ELSE u]

\* lines 193-194: _UNIT_DICTIONARY[...], a KeyError for a unit that is no key
TranslateUnit(u) ==
    [ok |-> u \in DOMAIN UNIT_DICTIONARY,
     v |-> IF u \in DOMAIN UNIT_DICTIONARY THEN UNIT_DICTIONARY[u] ELSE <<>>]

\* a token that is not ASCII
NonAscii == {"U+00B5"}
IsAscii(x) == x \notin NonAscii

\* s.encode('ascii', 'ignore')
AsciiIgnore(s) == SelectSeq(s, IsAscii)

\* lines 121-138
renameTheValue(name) ==
    LET n0 == AsciiIgnore(name)
        n1 == IF n0 \in DOMAIN UNIT_DICTIONARY THEN UNIT_DICTIONARY[n0]
              ELSE IF n0 \in DOMAIN NAMES THEN NAMES[n0]
              ELSE n0
    IN  [p \in 1..Len(n1) |-> IF n1[p] = " " THEN "_" ELSE n1[p]]

-----------------------------------------------------------------------------
(* getListOfValue, getListOfRawValue, getSpectrometerInformation *)

\* float(valueMembers[dataName][key].encode('ascii', 'ignore')) on one member:
\* the exception it raises, or "none"
MemberErr(m, dataName, key) ==
    IF ~IsObj(m) THEN "TypeError"
    ELSE IF dataName \notin DOMAIN m.v THEN "KeyError"
    ELSE LET d == m.v[dataName]
         IN  IF ~IsObj(d) THEN "TypeError"
             ELSE IF key \notin DOMAIN d.v THEN "KeyError"
             ELSE IF ~IsStr(d.v[key]) THEN "AttributeError"
             ELSE IF ParseNumber(AsciiIgnore(d.v[key].v)) = ValueError THEN "ValueError"
             ELSE "none"

MemberValue(m, dataName, key) == ParseNumber(AsciiIgnore(m.v[dataName].v[key].v))

\* the exception of a list comprehension: that of its first failing member
ListErr(members, dataName, key) ==
    IF \A n \in 1..Len(members) : MemberErr(members[n], dataName, key) = "none"
    THEN "none"
    ELSE MemberErr(members[CHOOSE n \in 1..Len(members) :
                               /\ MemberErr(members[n], dataName, key) # "none"
                               /\ \A q \in 1..(n - 1) :
                                      MemberErr(members[q], dataName, key) = "none"],
                   dataName, key)

\* the value of the first member, for every member
getListOfFirstValue(arrayOfJSON, dataName) ==
    [n \in 1..Len(arrayOfJSON) |-> MemberValue(arrayOfJSON[1], dataName, VALUE)]

\* lines 153-157
getListOfValue(arrayOfJSON, dataName) ==
    [n \in 1..Len(arrayOfJSON) |-> MemberValue(arrayOfJSON[n], dataName, VALUE)]

\* lines 160-164
getListOfRawValue(arrayOfJSON, dataName) ==
    [n \in 1..Len(arrayOfJSON) |-> MemberValue(arrayOfJSON[n], dataName, RAWVALUE)]

\* int(members["spectrometer"][key]) on one member: the exception it raises,
\* or "none"; int takes a number as it is and parses a string
IntErr(m, key) ==
    IF ~IsObj(m) THEN "TypeError"
    ELSE IF SPECTROMETER \notin DOMAIN m.v THEN "KeyError"
    ELSE LET d == m.v[SPECTROMETER]
         IN  IF ~IsObj(d) THEN "TypeError"
             ELSE IF key \notin DOMAIN d.v THEN "KeyError"
             ELSE IF d.v[key].t = "num" THEN "none"
             ELSE IF ~IsStr(d.v[key]) THEN "TypeError"
             ELSE IF ParseNumber(d.v[key].v) = ValueError THEN "ValueError"
             ELSE "none"

IntValue(m, key) ==
    LET x == m.v[SPECTROMETER].v[key]
    IN  IF x.t = "num" THEN x.v ELSE ParseNumber(x.v)

IntListErr(members, key) ==
    IF \A n \in 1..Len(members) : IntErr(members[n], key) = "none"
    THEN "none"
    ELSE IntErr(members[CHOOSE n \in 1..Len(members) :
                            /\ IntErr(members[n], key) # "none"
                            /\ \A q \in 1..(n - 1) : IntErr(members[q], key) = "none"],
                key)

\* lines 141-150: the two lists, each built over every member
getSpectrometerInformation(arrayOfJSON) ==
    <<[n \in 1..Len(arrayOfJSON) |-> IntValue(arrayOfJSON[n], MAXFIXED)],
      [n \in 1..Len(arrayOfJSON) |-> IntValue(arrayOfJSON[n], INTEGRATION)]>>

\* the exception of lines 145-148: that of the first list that fails
SpectrometerErr(arrayOfJSON) ==
    IF IntListErr(arrayOfJSON, MAXFIXED) # "none"
    THEN IntListErr(arrayOfJSON, MAXFIXED)
    ELSE IntListErr(arrayOfJSON, INTEGRATION)

-----------------------------------------------------------------------------
(* main *)

RecordTime == <<"Tue", " ", "Nov", " ", "03">>
CommandLine == <<"in.json", " ", "out">>

\* lines 176-177: JSONMembers[u"environment_sensor_set_reading"]
ReadingErr(rec) ==
    IF ~IsObj(rec) THEN "TypeError"
    ELSE IF <<MARKER>> \notin DOMAIN rec.v THEN "KeyError"
    ELSE "none"

\* lines 178-179: JSONMembers[u'timestamp']
TimestampErr(m) ==
    IF ~IsObj(m) THEN "TypeError"
    ELSE IF TIMESTAMP \notin DOMAIN m.v THEN "KeyError"
    ELSE "none"

\* lines 175-186: the container is opened, the time variable is written and
\* the template dataMemberList[0] is read
MainOpen ==
    /\ pc = "main"
    /\ LET opened == [NoDataset EXCEPT !.state = "open"]
           members == [n \in 1..Len(JSONArray) |-> JSONArray[n].v[<<MARKER>>]]
           timeStampList == [n \in 1..Len(JSONArray) |-> members[n].v[TIMESTAMP].v]
           timed == Assign(CreateVariable(CreateDimension(opened, TIME, 0),
                                          TIME, "str", <<TIME>>),
                           TIME, timeStampList)
       IN  IF \E n \in 1..Len(JSONArray) : ReadingErr(JSONArray[n]) # "none"
           THEN /\ Raise(ReadingErr(JSONArray[CHOOSE n \in 1..Len(JSONArray) :
                             /\ ReadingErr(JSONArray[n]) # "none"
                             /\ \A q \in 1..(n - 1) : ReadingErr(JSONArray[q]) = "none"]))
                /\ netCDFHandler' = opened
                /\ UNCHANGED <<dataMemberList, todo>>
           ELSE IF \E n \in 1..Len(members) : TimestampErr(members[n]) # "none"
           THEN /\ Raise(TimestampErr(members[CHOOSE n \in 1..Len(members) :
                             /\ TimestampErr(members[n]) # "none"
                             /\ \A q \in 1..(n - 1) : TimestampErr(members[q]) = "none"]))
                /\ netCDFHandler' = opened
                /\ dataMemberList' = members
                /\ UNCHANGED todo
           ELSE IF Len(members) = 0
           THEN /\ Raise("IndexError")
                /\ netCDFHandler' = timed
                /\ dataMemberList' = members
                /\ UNCHANGED todo
           ELSE /\ netCDFHandler' = timed
                /\ dataMemberList' = members
                /\ todo' = DOMAIN members[1].v
                /\ pc' = "fields"
                /\ UNCHANGED err
    /\ UNCHANGED <<log, input, file, fmtVars, JSONArray, wavelength, spectrum>>

\* lines 188-197: a field of the template that is neither the spectrometer nor
\* a string
ScalarField(nc, members, data) ==
    LET name == renameTheValue(data)
        rawName == renameTheValue(data) \o <<"_rawValue">>
        tmpl == members[1].v[data]
        created == CreateVariable(nc, name, "f4", <<TIME>>)
        valued == Assign(created, name, getListOfValue(members, data))
        hasUnit == UNIT \in DOMAIN tmpl.v
        united == IF hasUnit
                  THEN SetUnits(valued, name, TranslateUnit(tmpl.v[UNIT].v).v)
                  ELSE valued
    IN  IF Exists(nc, name) THEN Outcome("RuntimeError", nc)
        ELSE IF ListErr(members, data, VALUE) # "none"
        THEN Outcome(ListErr(members, data, VALUE), created)
        ELSE IF hasUnit /\ ~IsStr(tmpl.v[UNIT]) THEN Outcome("TypeError", valued)
        ELSE IF hasUnit /\ ~TranslateUnit(tmpl.v[UNIT].v).ok
        THEN Outcome("KeyError", valued)
        ELSE IF RAWVALUE \notin DOMAIN tmpl.v THEN Outcome("none", united)
        ELSE IF ListErr(members, data, RAWVALUE) # "none"
        THEN Outcome(ListErr(members, data, RAWVALUE), united)
        ELSE IF Exists(united, rawName) THEN Outcome("RuntimeError", united)
        ELSE Outcome("none",
                     Assign(CreateVariable(united, rawName, "f4", <<TIME>>),
                            rawName, getListOfRawValue(members, data)))

\* the literal of the last record
TextFieldOfLast(nc, members, data) ==
    LET name == renameTheValue(data)
    IN  IF Exists(nc, name) THEN Outcome("RuntimeError", nc)
        ELSE Outcome("none",
                     Assign(CreateVariable(nc, name, "str", <<>>),
                            name, <<members[Len(members)].v[data].v>>))

\* lines 198-200: a field whose value in the template is a string
TextField(nc, members, data) ==
    LET name == renameTheValue(data)
    IN  IF Exists(nc, name) THEN Outcome("RuntimeError", nc)
        ELSE Outcome("none",
                     Assign(CreateVariable(nc, name, "str", <<>>),
                            name, <<members[1].v[data].v>>))

MAXFIXED_VARIABLE == <<"Spectrometer_maxFixedIntensity">>
INTEGRATION_VARIABLE == <<"Spectrometer_Integration_Time_In_Microseconds">>

\* lines 202-206
SpectrometerField(nc, members) ==
    LET info == getSpectrometerInformation(members)
        first == Assign(CreateVariable(nc, MAXFIXED_VARIABLE, "f4", <<TIME>>),
                        MAXFIXED_VARIABLE, info[1])
    IN  IF SpectrometerErr(members) # "none" THEN Outcome(SpectrometerErr(members), nc)
        ELSE IF Exists(nc, MAXFIXED_VARIABLE) THEN Outcome("RuntimeError", nc)
        ELSE IF Exists(first, INTEGRATION_VARIABLE) THEN Outcome("RuntimeError", first)
        ELSE Outcome("none",
                     Assign(CreateVariable(first, INTEGRATION_VARIABLE, "f4", <<TIME>>),
                            INTEGRATION_VARIABLE, info[2]))

\* lines 187-206: the body of the loop for one field of the template
VisitField(nc, members, data) ==
    LET tmpl == members[1].v[data]
        named == IF data # SPECTROMETER /\ ~IsStr(tmpl) THEN ScalarField(nc, members, data)
                 ELSE IF IsStr(tmpl) THEN TextField(nc, members, data)
                 ELSE Outcome("none", nc)
    IN  IF named.err # "none" THEN named
        ELSE IF data = SPECTROMETER THEN SpectrometerField(named.nc, members)
        ELSE named

\* lines 186-206: one iteration; a dict is visited in an order of its own
MainField ==
    /\ pc = "fields"
    /\ \E data \in todo :
          LET out == VisitField(netCDFHandler, dataMemberList, data)
          IN  /\ netCDFHandler' = out.nc
              /\ todo' = todo \ {data}
              /\ IF out.err # "none"
                 THEN Raise(out.err)
                 ELSE /\ pc' = IF todo = {data} THEN "spectrum" ELSE "fields"
                      /\ UNCHANGED err
    /\ UNCHANGED <<log, input, file, fmtVars, JSONArray, wavelength, spectrum,
                   dataMemberList>>

\* lines 208-213
MainSpectrum ==
    /\ pc = "spectrum"
    /\ IF wavelength # <<>> /\ spectrum # <<>>
       THEN LET L == Len(wavelength[1])
                dimmed == CreateDimension(netCDFHandler, WAVELENGTH, L)
                axis == Assign(CreateVariable(dimmed, WAVELENGTH, "f4", <<WAVELENGTH>>),
                               WAVELENGTH, wavelength[1])
                matrix == Assign(CreateVariable(axis, SPECTRUM, "f4", <<TIME, WAVELENGTH>>),
                                 SPECTRUM, spectrum)
            IN  IF Exists(netCDFHandler, WAVELENGTH)
                THEN /\ Raise("RuntimeError")
                     /\ netCDFHandler' = dimmed
                ELSE IF Exists(axis, SPECTRUM)
                THEN /\ Raise("RuntimeError")
                     /\ netCDFHandler' = axis
                ELSE IF \E r \in 1..Len(spectrum) : Len(spectrum[r]) # L
                THEN /\ Raise("ValueError")
                     /\ netCDFHandler' = CreateVariable(axis, SPECTRUM, "f4",
                                                        <<TIME, WAVELENGTH>>)
                ELSE /\ netCDFHandler' = matrix
                     /\ pc' = "history"
                     /\ UNCHANGED err
       ELSE /\ pc' = "history"
            /\ UNCHANGED <<err, netCDFHandler>>
    /\ UNCHANGED <<log, input, file, fmtVars, JSONArray, wavelength, spectrum,
                   dataMemberList, todo>>

\* lines 215-216
MainClose ==
    /\ pc = "history"
    /\ netCDFHandler' =
           [netCDFHandler EXCEPT
               !.history = RecordTime \o <<":", " ", "python", " ">> \o CommandLine,
               !.state = "closed"]
    /\ pc' = "closed"
    /\ UNCHANGED <<err, log, input, file, fmtVars, JSONArray, wavelength, spectrum,
                   dataMemberList, todo>>

-----------------------------------------------------------------------------
(* The repair applied to any file of at most MaxLines lines *)

\* files of 1..MaxLines lines; read().split('\n') is never empty
InitFormat ==
    /\ log = NoLog
    /\ NoMain
    /\ \E n \in 1..MaxLines : \E lines \in [1..n -> LineVocabulary] : StartFormat(lines)

NextFormat ==
    \/ ScanStep
    \/ DropStep
    \/ StitchStep
    \/ WriteStep

SpecFormat == InitFormat /\ [][NextFormat]_vars

-----------------------------------------------------------------------------
(* JSONHandler on a log *)

\* logs of 1..MaxRecords records of 1..MaxBands bands
Init ==
    /\ \E N \in 1..MaxRecords : \E L \in 1..MaxBands : log \in LogsOf(N, L)
    /\ StartFormat(LogLines(log))
    /\ NoMain

Next ==
    \/ ScanStep
    \/ DropStep
    \/ StitchStep
    \/ WriteStep
    \/ LoadStep
    \/ MainOpen
    \/ MainField
    \/ MainSpectrum
    \/ MainClose

Spec == Init /\ [][Next]_vars

-----------------------------------------------------------------------------
(* main on any array of reading records *)

\* arrays of 0..MaxRecords records, each of a schema and a number of its own
Readings ==
    { Reading(r, schema, WAxis(1), [b \in 1..1 |-> 10 + r]) :
        r \in 1..MaxRecords, schema \in Schemas }

InitMain ==
    /\ pc = "main"
    /\ err = "none"
    /\ \E N \in 0..MaxRecords : \E a \in [1..N -> Readings] :
          log = [recs |-> a, newline |-> FALSE]
    /\ input = <<>>
    /\ file = <<>>
    /\ tempList = <<>>
    /\ i = 0
    /\ linePosition = <<>>
    /\ wavelengthList = <<>>
    /\ spectrumList = <<>>
    /\ j = 0
    /\ k = 0
    /\ lookedAt = NoRead
    /\ JSONArray = [n \in 1..Len(log.recs) |-> RecordOf(log.recs[n])]
    /\ \/ wavelength = <<>> /\ spectrum = <<>>
       \/ /\ wavelength = [n \in 1..Len(log.recs) |-> log.recs[n].W]
          /\ spectrum = [n \in 1..Len(log.recs) |-> log.recs[n].S]
    /\ netCDFHandler = NoDataset
    /\ dataMemberList = <<>>
    /\ todo = {}

NextMain ==
    \/ MainOpen
    \/ MainField
    \/ MainSpectrum
    \/ MainClose

SpecMain == InitMain /\ [][NextMain]_vars

-----------------------------------------------------------------------------
(* Properties *)

Records == Len(log.recs)

AfterFormat == {"formatted", "main", "fields", "spectrum", "history", "closed"}
AfterDrop == {"stitch", "write"} \cup AfterFormat

\* the lines of the input that carry the marker (positions from 1)
MarkerLines == {p \in 1..Len(input) : Contains(input[p], MARKER)}
FirstMarker == CHOOSE p \in MarkerLines : \A q \in MarkerLines : p <= q

\* the lines before the second and later marker lines
Boundaries == {p - 1 : p \in MarkerLines \ {FirstMarker}}

\* the input with "},{" in place of those lines
Repaired == [p \in 1..Len(input) |-> IF p \in Boundaries THEN StitchLine ELSE input[p]]

\* C1: a log of N >= 1 records (N marker lines) is written back as one array
\* of exactly N objects: the line before the first marker line is kept, the
\* line before each of the 2nd..Nth marker lines is "},{" (N - 1 lines in
\* all), and the content lies between one leading "[" and one trailing "]".
C1_ArrayOfNObjects ==
    pc \in AfterFormat =>
        /\ Cardinality(MarkerLines) = Records
        /\ Len(linePosition) = Records - 1
        /\ \A q \in 1..Len(linePosition) : linePosition[q] + 1 \in Boundaries
        /\ file = <<<<"[">>>> \o Repaired \o <<<<"]">>>>
        /\ LET r == Loads(JoinLines(file))
           IN  /\ r.ok
               /\ r.val.t = "arr"
               /\ Len(r.val.v) = Records
               /\ \A n \in 1..Len(r.val.v) : r.val.v[n].t = "obj"

C1_Witness == pc = "formatted" /\ Records >= 2 /\ Len(linePosition) = Records - 1

RECURSIVE LinesThrough(_)
LinesThrough(n) ==
    IF n = 0 THEN 0 ELSE LinesThrough(n - 1) + Len(RecordLines(log.recs[n])) + 1

\* the 0-based position of the line that closes the reading of record n, four
\* lines after the last wavelength line of the record
ReadingClose(n) == LinesThrough(n) - 1

\* C2: for a log of N records, each with one spectrometer sub-object of
\* non-empty wavelength and spectrum arrays, the record index has advanced
\* exactly once for every record whose arrays the scan has passed, the drop
\* step removes one slot of each list, and each returned list has N entries.
C2_OneEntryPerRecord ==
    /\ pc \in {"scan", "drop"} =>
          /\ j = Cardinality({n \in 1..Records : ReadingClose(n) < i})
          /\ k = j
          /\ Len(wavelengthList) = j + 1
          /\ Len(spectrumList) = k + 1
    /\ pc = "drop" => j = Records
    /\ pc \in AfterDrop => Len(wavelengthList) = Records /\ Len(spectrumList) = Records

C2_Witness ==
    pc = "stitch" /\ Records >= 2 /\ Len(log.recs[1].W) >= 2 /\ Len(wavelengthList) = Records

\* C3: after JSONHandler and main on a log of N records with the wavelength
\* array W of length L in every record and the spectrum arrays S_1..S_N, entry
\* r of both returned series comes from record r, the wavelength dimension
\* has length L, the wavelength variable is W and the spectrum variable is
\* the N x L matrix whose row r is S_r.
C3_RoundTrip ==
    pc = "closed" =>
        /\ wavelength = [r \in 1..Records |-> log.recs[r].W]
        /\ spectrum = [r \in 1..Records |-> log.recs[r].S]
        /\ netCDFHandler.dims[WAVELENGTH] = Len(log.recs[1].W)
        /\ netCDFHandler.vars[WAVELENGTH].data = log.recs[1].W
        /\ netCDFHandler.vars[SPECTRUM].data = [r \in 1..Records |-> log.recs[r].S]

C3_Witness ==
    /\ pc = "closed"
    /\ Records >= 2
    /\ Len(log.recs[1].W) >= 2
    /\ log.recs[1].S # log.recs[2].S
    /\ Len(netCDFHandler.vars[SPECTRUM].data) = Records

\* the name of the variable of a field
FieldVariable(name) ==
    IF name = <<"sensor", " ", "par">>
    THEN <<"Sensor", "_", "Photosynthetical", "_", "Active", "_", "Radiation">>
    ELSE name

RawVariable(name) == FieldVariable(name) \o <<"_rawValue">>

\* C4: when main completes on N records, the time dimension has length N and
\* every variable over time holds N values, the i-th from the i-th record:
\* the time variable, the variable of each scalar field, its _rawValue
\* companion when the template has a rawValue, and the two spectrometer
\* variables.
C4_TimeAligned ==
    pc = "closed" =>
        LET nc == netCDFHandler
            tmpl == log.recs[1].schema
        IN  /\ nc.dims[TIME] = Records
            /\ nc.vars[TIME].data = [n \in 1..Records |-> TimestampOf(log.recs[n].r)]
            /\ \A q \in 1..Len(tmpl) :
                  /\ FieldVariable(tmpl[q].name) \in DOMAIN nc.vars
                  /\ nc.vars[FieldVariable(tmpl[q].name)].data =
                         [n \in 1..Records |-> ValueOf(log.recs[n].r)]
                  /\ tmpl[q].hasRaw =>
                         /\ RawVariable(tmpl[q].name) \in DOMAIN nc.vars
                         /\ nc.vars[RawVariable(tmpl[q].name)].data =
                                [n \in 1..Records |-> RawValueOf(log.recs[n].r)]
            /\ nc.vars[<<"Spectrometer_maxFixedIntensity">>].data =
                   [n \in 1..Records |-> MaxFixedOf(log.recs[n].r)]
            /\ nc.vars[<<"Spectrometer_Integration_Time_In_Microseconds">>].data =
                   [n \in 1..Records |-> IntegrationOf(log.recs[n].r)]
            /\ \A v \in DOMAIN nc.vars :
                  Contains(nc.vars[v].dims, TIME) => Len(nc.vars[v].data) = Records

C4_Witness ==
    /\ pc = "closed"
    /\ Records >= 2
    /\ log.recs[1].r # log.recs[2].r
    /\ log.recs[1].schema = <<SensorPar>>
    /\ Len(netCDFHandler.vars[RawVariable(SensorPar.name)].data) = Records

\* C5: main on an array of zero records reaches no error state, and the
\* container it leaves when it ends is closed with a time dimension of
\* length 0.
C5_EmptyArrayCompletes ==
    (pc # "main" /\ Len(JSONArray) = 0) =>
        /\ err = "none"
        /\ pc = "closed" =>
              /\ netCDFHandler.state = "closed"
              /\ netCDFHandler.dims[TIME] = 0

\* the fields of the first record
Template == JSONArray[1].v[<<MARKER>>].v

\* C6 as stated: every field of the first record, the spectrometer included,
\* has a variable named after it.
C6_EveryFieldHasItsVariable ==
    pc = "closed" =>
        \A data \in DOMAIN Template : FieldVariable(data) \in DOMAIN netCDFHandler.vars

\* C6: the variables of a completed container are those of the first record:
\* for each of its fields but the spectrometer one variable named after the
\* field, a text variable without dimension holding the first record's
\* literal when the value is a string, a numeric variable over time when it
\* is a scalar descriptor (and the _rawValue companion); the spectrometer
\* field has no variable of its own name, only the two dedicated variables
\* over time.
C6_SchemaFromTemplate ==
    pc = "closed" =>
        LET nc == netCDFHandler
            named == DOMAIN Template \ {SPECTROMETER}
        IN  /\ \A data \in named :
                  /\ FieldVariable(data) \in DOMAIN nc.vars
                  /\ IF Template[data].t = "str"
                     THEN /\ nc.vars[FieldVariable(data)].dims = <<>>
                          /\ nc.vars[FieldVariable(data)].dtype = "str"
                          /\ nc.vars[FieldVariable(data)].data = <<Template[data].v>>
                     ELSE /\ nc.vars[FieldVariable(data)].dims = <<TIME>>
                          /\ nc.vars[FieldVariable(data)].dtype = "f4"
            /\ SPECTROMETER \in DOMAIN Template
            /\ SPECTROMETER \notin DOMAIN nc.vars
            /\ \A v \in { <<"Spectrometer_maxFixedIntensity">>,
                          <<"Spectrometer_Integration_Time_In_Microseconds">> } :
                  /\ v \in DOMAIN nc.vars
                  /\ nc.vars[v].dims = <<TIME>>
                  /\ nc.vars[v].dtype = "f4"
            /\ DOMAIN nc.vars =
                   {TIME}
                   \cup {FieldVariable(data) : data \in named}
                   \cup {RawVariable(data) :
                            data \in {d \in named : /\ Template[d].t = "obj"
                                                    /\ RAWVALUE \in DOMAIN Template[d].v}}
                   \cup { <<"Spectrometer_maxFixedIntensity">>,
                          <<"Spectrometer_Integration_Time_In_Microseconds">> }
                   \cup (IF wavelength # <<>> /\ spectrum # <<>>
                         THEN {WAVELENGTH, SPECTRUM} ELSE {})

C6_Witness ==
    /\ pc = "closed"
    /\ Records >= 2
    /\ log.recs[1].r # log.recs[2].r
    /\ log.recs[1].schema = <<>>
    /\ log.recs[2].schema = <<SensorPar>>
    /\ netCDFHandler.vars[TIMESTAMP].data = <<TimestampOf(log.recs[1].r)>>

\* the translations of the units of the model that lines 61-64 hold
Translation(u) ==
    IF u = <<"DegCelsius">> THEN <<"Celsius">>
    ELSE IF u = <<"?mol/(m^2*s)">>
    THEN <<"micromole", " ", "meters-2", " ", "second-1">>
    ELSE <<>>

Translated(u) == u \in { <<"DegCelsius">>, <<"?mol/(m^2*s)">> }

\* C7: the variable of a scalar field whose template descriptor has a unit
\* carries the table's translation of the unit; when the unit is no key of
\* the table, main ends with a KeyError and the variable carries no units.
C7_UnitsTranslated ==
    (pc # "main" /\ Records >= 1) =>
        LET nc == netCDFHandler
            tmpl == log.recs[1].schema
        IN  /\ \A q \in 1..Len(tmpl) :
                  (tmpl[q].hasUnit /\ FieldVariable(tmpl[q].name) \in DOMAIN nc.vars) =>
                      LET var == nc.vars[FieldVariable(tmpl[q].name)]
                      IN  IF Translated(tmpl[q].unit)
                          THEN /\ var.hasUnits => var.units = Translation(tmpl[q].unit)
                               /\ pc # "error" => var.hasUnits
                          ELSE /\ ~var.hasUnits
                               /\ pc = "error"
                               /\ err = "KeyError"
            /\ \A v \in DOMAIN nc.vars :
                  nc.vars[v].hasUnits =>
                      \E q \in 1..Len(tmpl) :
                          /\ v = FieldVariable(tmpl[q].name)
                          /\ tmpl[q].hasUnit
                          /\ Translated(tmpl[q].unit)

C7_Witness ==
    /\ pc = "error"
    /\ err = "KeyError"
    /\ Records >= 1
    /\ log.recs[1].schema = <<SensorPar, TemperatureK>>
    /\ FieldVariable(SensorPar.name) \in DOMAIN netCDFHandler.vars
    /\ netCDFHandler.vars[FieldVariable(SensorPar.name)].units = Translation(SensorPar.unit)
    /\ <<"temperature">> \in DOMAIN netCDFHandler.vars
    /\ ~netCDFHandler.vars[<<"temperature">>].hasUnits

\* C8 as stated: when the scan has finished, the slot of index 0 of both
\* lists is empty.
C8_FirstSlotEmpty ==
    pc = "drop" => wavelengthList[1] = <<>> /\ spectrumList[1] = <<>>

\* C8: when the scan of a log of N records has finished, slots 0..N-1 of both
\* lists hold the arrays of the records in record order and the only empty
\* slot is the last one, of index N; the drop step removes that slot and
\* leaves the others in their order.
C8_LastSlotDropped ==
    /\ pc = "drop" =>
          /\ wavelengthList = [n \in 1..Records |-> log.recs[n].W] \o <<<<>>>>
          /\ spectrumList = [n \in 1..Records |-> log.recs[n].S] \o <<<<>>>>
    /\ pc \in AfterDrop =>
          /\ wavelengthList = [n \in 1..Records |-> log.recs[n].W]
          /\ spectrumList = [n \in 1..Records |-> log.recs[n].S]

C8_Witness ==
    /\ pc = "stitch"
    /\ Records >= 2
    /\ log.recs[1].S # log.recs[2].S
    /\ spectrumList[1] = log.recs[1].S

\* the lines handed to the bracket test: the input with "},{" at linePosition
Body ==
    [p \in 1..Len(input) |->
        IF \E q \in 1..Len(linePosition) : linePosition[q] + 1 = p
        THEN StitchLine ELSE input[p]]

\* C9 as stated: every completed run leaves a file whose first line has the
\* opening bracket and whose last line has the closing bracket.
C9_AlwaysBracketed ==
    pc = "formatted" => Contains(file[1], "[") /\ Contains(file[Len(file)], "]")

\* C9: a "[" line and a "]" line are added exactly when the first line has no
\* "[" and the last line has no "]"; otherwise the lines are written as they
\* are, whichever bracket is missing.
C9_BracketsWhenBothMissing ==
    pc = "formatted" =>
        IF ~Contains(Body[1], "[") /\ ~Contains(Body[Len(Body)], "]")
        THEN file = <<<<"[">>>> \o Body \o <<<<"]">>>>
        ELSE file = Body

C9_Witness ==
    /\ pc = "formatted"
    /\ Contains(input[1], "[")
    /\ ~Contains(input[Len(input)], "]")
    /\ file = Body

\* C10: the test of lines 82-83 at line i reads a line before line i, and a
\* file of fewer than four lines is scanned without an IndexError.
C10_LooksBackOnly ==
    /\ lookedAt # NoRead => lookedAt < i - 1
    /\ err # "IndexError"

=============================================================================
